---- MODULE Spec2Model ----
(***************************************************************************)
(* Model of the catalog reconciliation service: the task scheduler         *)
(* (internal/task), its worker processTask, and the PostgreSQL storage     *)
(* layer (internal/storage/postgresql: Upsert, Delete, UpsertAndDelete).   *)
(***************************************************************************)
EXTENDS Integers, Sequences, FiniteSets, TLC

(***************************************************************************)
(* Bounds of the model                                                     *)
(***************************************************************************)
\* offer ids the storage test driver uses range over 0..MaxOffer; 0 violates
\* the offer_id domain
MaxOffer == 2
\* offer ids that have a place in the products table of the model
NumOffers == 4
\* longest product batch handed to Upsert in StoreSpec
MaxBatchLen == 2
\* longest short key list handed to Delete in StoreSpec
MaxKeyListLen == 2

(***************************************************************************)
(* Program constants                                                       *)
(***************************************************************************)
\* delete.go:27  isLarge := len(offerIDs) > 500
DeleteThreshold == 500
\* the offer_id and product_quantity domains are AS integer (32 bit)
MaxInt32 == 2147483647

(***************************************************************************)
(* The products table (schema: part_000 57-139)                            *)
(***************************************************************************)
Merchants == {1, 2}
Offers == 1..NumOffers
Names == {"a", "b"}
Prices == {1, 2}
Quantities == {1, 2}

\* a row of products, without its key
Rows == [Name : Names, Price : Prices, Quantity : Quantities]
\* the marker of a key that has no row
Absent == [Name |-> "", Price |-> 0, Quantity |-> 0]
Keys == Merchants \X Offers
\* a table content: every key of the model maps to its row or to Absent
Tables == [Keys -> Rows \cup {Absent}]
EmptyTable == [k \in Keys |-> Absent]

Present(tbl) == {k \in Keys : tbl[k] # Absent}

\* postgresql.Product
Product(m, o, n, p, q) ==
    [MerchantID |-> m, OfferID |-> o, Name |-> n, Price |-> p, Quantity |-> q]
KeyOf(p) == <<p.MerchantID, p.OfferID>>
RowOf(p) == [Name |-> p.Name, Price |-> p.Price, Quantity |-> p.Quantity]

Range(s) == {s[i] : i \in DOMAIN s}

\* the domain constraints a row has to satisfy to be stored in products or
\* in a table created LIKE products
ValidOfferID(o) == o > 0 /\ o <= MaxInt32
ValidProduct(p) ==
    /\ p.MerchantID > 0 /\ p.MerchantID <= MaxInt32
    /\ ValidOfferID(p.OfferID)
    /\ p.Name # ""
    /\ p.Price > 0
    /\ p.Quantity > 0 /\ p.Quantity <= MaxInt32

(***************************************************************************)
(* SQL statements of the storage layer, as functions of the table content  *)
(* the statement sees                                                       *)
(***************************************************************************)
\* COPY into products_temporary (LIKE products INCLUDING CONSTRAINTS
\* INCLUDING INDEXES): every row has to satisfy the domain constraints and
\* the copied unique index on (merchant_id, offer_id)
StagingProductsOK(products) ==
    /\ {i \in DOMAIN products : ~ValidProduct(products[i])} = {}
    /\ {ij \in (DOMAIN products) \X (DOMAIN products) :
          KeyOf(products[ij[1]]) = KeyOf(products[ij[2]]) /\ ij[1] # ij[2]} = {}

\* COPY into offer_ids_temporary (offer_id offer_id): the column has the
\* offer_id domain, so every staged id has to satisfy it
StagingOfferIDsOK(offerIDs) ==
    {i \in DOMAIN offerIDs : ~ValidOfferID(offerIDs[i])} = {}

\* Differs without its WHERE clause: every conflicting row is updated
Differs_always(old, new) == TRUE
\* Differs with the quantity comparison left out
Differs_noQuantity(old, new) ==
    \/ old.Name # new.Name
    \/ old.Price # new.Price

\* WHERE clause of ON CONFLICT ... DO UPDATE
Differs(old, new) ==
    \/ old.Name # new.Name
    \/ old.Price # new.Price
    \/ old.Quantity # new.Quantity

\* the CTE xmax_values: the xmax of every row the INSERT ... ON CONFLICT
\* returns, by index of the staged row. A fresh insert has xmax 0, a row
\* updated by the conflict action carries the id of the updating
\* transaction, a conflicting row the WHERE clause rejects is not returned.
xmax_values(view, products, xid) ==
    LET returned == {i \in DOMAIN products :
                        \/ view[KeyOf(products[i])] = Absent
                        \/ Differs(view[KeyOf(products[i])], RowOf(products[i]))}
    IN  [i \in returned |->
            IF view[KeyOf(products[i])] = Absent THEN 0 ELSE xid]

\* the CTE temp_stats and the final SELECT with COALESCE
InsertedOf(xmax) == Cardinality({i \in DOMAIN xmax : xmax[i] = 0})
UpdatedOf(xmax) == Cardinality({i \in DOMAIN xmax : xmax[i] > 0})

\* the table content the INSERT ... ON CONFLICT leaves
MergedView(view, products) ==
    [k \in Keys |->
        IF \E i \in DOMAIN products : KeyOf(products[i]) = k
        THEN LET i == CHOOSE j \in DOMAIN products : KeyOf(products[j]) = k
             IN  IF view[k] = Absent \/ Differs(view[k], RowOf(products[i]))
                 THEN RowOf(products[i])
                 ELSE view[k]
        ELSE view[k]]

\* the id list the strings.Builder loop writes into VALUES (...)
ValuesList(offerIDs) == {offerIDs[i] : i \in 1..Len(offerIDs)}

\* DELETE FROM products WHERE merchant_id = $1 AND offer_id IN (VALUES ...)
DeleteValuesRows(view, merchantID, offerIDs) ==
    {k \in Present(view) : k[1] = merchantID /\ k[2] \in ValuesList(offerIDs)}

\* DELETE FROM products USING offer_ids_temporary WHERE merchant_id = $1
\* AND products.offer_id = offer_ids_temporary.offer_id: the join pairs
\* every row with every staged id equal to its offer id; a row is deleted
\* (and counted) once however many staged ids it joins
DeleteUsingJoin(view, merchantID, offerIDs) ==
    {<<k, i>> \in Present(view) \X DOMAIN offerIDs :
        k[1] = merchantID /\ k[2] = offerIDs[i]}
DeleteUsingRows(view, merchantID, offerIDs) ==
    {ki[1] : ki \in DeleteUsingJoin(view, merchantID, offerIDs)}

\* delete.go:27
isLarge(offerIDs) == Len(offerIDs) > DeleteThreshold

\* the rows the DELETE of the branch Delete takes removes
DeleteRows(view, merchantID, offerIDs) ==
    IF isLarge(offerIDs)
    THEN DeleteUsingRows(view, merchantID, offerIDs)
    ELSE DeleteValuesRows(view, merchantID, offerIDs)

\* tag.RowsAffected()
RowsAffected(rows) == Cardinality(rows)

(***************************************************************************)
(* Storage.List (list.go 11-116)                                           *)
(***************************************************************************)
defaultMerchantID == 0
defaultOfferID == 0
defaultNameQuery == ""

\* listParameters after the options of the call were applied
ListParameters(m, o, n) == [merchantID |-> m, offerID |-> o, nameQuery |-> n]

isAnyNonDefault_any(lp) ==
    \/ lp.merchantID # defaultMerchantID
    \/ lp.offerID # defaultOfferID
    \/ lp.nameQuery # defaultNameQuery
\* listParameters.isAnyNonDefault
isAnyNonDefault(lp) ==
    \/ lp.merchantID = defaultMerchantID
    \/ lp.offerID = defaultOfferID
    \/ lp.nameQuery = defaultNameQuery

\* the characters of the names and name queries of the model
Chars(n) ==
    CASE n = "" -> <<>>
      [] n = "a" -> <<"a">>
      [] n = "b" -> <<"b">>
      [] n = "ab" -> <<"a", "b">>
\* name ^@ $1
StartsWith(name, q) ==
    /\ Len(Chars(q)) <= Len(Chars(name))
    /\ SubSeq(Chars(name), 1, Len(Chars(q))) = Chars(q)

\* the rows of the SELECT that List builds: WHERE 1 = 1 and one AND per
\* parameter that differs from its default
ListQueryRows(tbl, lp) ==
    {Product(k[1], k[2], tbl[k].Name, tbl[k].Price, tbl[k].Quantity) :
        k \in {j \in Present(tbl) :
                /\ lp.merchantID # defaultMerchantID => j[1] = lp.merchantID
                /\ lp.offerID # defaultOfferID => j[2] = lp.offerID
                /\ lp.nameQuery # defaultNameQuery => StartsWith(tbl[j].Name, lp.nameQuery)}}

NoListing ==
    [pc |-> "idle", parameters |-> ListParameters(0, 0, ""),
     products |-> {}, err |-> "nil", rowsErr |-> FALSE]

(***************************************************************************)
(* State                                                                   *)
(***************************************************************************)
\* tasks created in one run; the worker of task t is storage caller t
NumTasks == 2
TaskIDs == 1..NumTasks
\* concurrent CancelTask calls in one run
NumCancels == 2
Callers == 1..NumCancels

VARIABLES
    table,      \* committed content of products, as every other session sees it
    dbpc,       \* per caller: position inside Upsert / Delete / UpsertAndDelete
    call,       \* per caller: the storage call in progress and its arguments
    tx,         \* per caller: pending writes of its open transactions
    res,        \* per caller: inserted, updated, deleted and err of the call
    ctxErr,     \* per caller: ctx.Err() of the context the call runs under
    panicked,   \* the process died of a runtime panic
    txOutcome,  \* per caller: how far the outermost transaction of the call got
    tasks,          \* Scheduler.taskStore.tasks: id -> task{state, result}
    cancelChannels, \* Scheduler.cancelChannels.cancelChannels: ids with an entry
    stopChannels,   \* Scheduler.cancelChannels.stopChannels: ids with an entry
    chans,          \* per task: which of its four channels are closed
    coordLock,      \* Scheduler.cancelChannels.rw: 0, or the CancelTask call holding it
    spc,            \* per task: position of its schedule goroutine
    wpc,            \* per task: position of its processTask goroutine
    sheet,          \* per task: the first sheet of the uploaded workbook
    cpc,            \* per CancelTask call: its position
    ctgt,           \* per CancelTask call: the id it was called with
    cret,           \* per CancelTask call: what it returned
    observed,       \* per task: the state the last ReadTaskStatus returned
    returned,       \* per task: the status text the last ReadTaskStatus returned
    readErr,        \* per id: the error the last ReadTaskStatus of that id returned
    plan,       \* storage test driver: calls still to make
    hist,       \* storage test driver: calls made, with what they returned
    table0,     \* storage test driver: table content the fixture starts from
    load,       \* what the clients of the run are going to ask of the service
    listing     \* the List call of the run: its parameters and what it returned

storeVars == <<table, dbpc, call, tx, res>>
driverVars == <<plan, hist, table0, load, listing>>
registryVars == <<tasks, observed, returned, readErr>>
coordVars == <<cancelChannels, stopChannels, chans, coordLock>>
goVars == <<spc, wpc, sheet>>
cancelVars == <<cpc, ctgt, cret>>
schedVars == <<registryVars, coordVars, goVars, cancelVars>>
vars == <<storeVars, ctxErr, panicked, txOutcome, driverVars, schedVars>>

\* a key no open transaction of the caller has written or locked
Untouched == [Name |-> "-", Price |-> -1, Quantity |-> -1]
NoWrites == [k \in Keys |-> Untouched]
\* outer: the transaction UpsertAndDelete begins on the pool; inner: the
\* transaction Upsert or Delete begins (on the pool, or nested in outer)
NoTx == [outer |-> NoWrites, inner |-> NoWrites]
NoCall == [op |-> "none", products |-> <<>>, merchantID |-> 0, offerIDs |-> <<>>]
NoRes == [inserted |-> 0, updated |-> 0, deleted |-> 0, err |-> "nil"]

Locked(w) == {k \in Keys : w[k] # Untouched}
\* rows locked by the open transactions of callers other than p
LockedByOthers(p) ==
    UNION {Locked(tx[q].outer) \cup Locked(tx[q].inner) : q \in TaskIDs \ {p}}
\* what a statement of a transaction with pending writes w sees
View(tbl, w) == [k \in Keys |-> IF w[k] = Untouched THEN tbl[k] ELSE w[k]]

\* id of the transaction of caller p, as xmax shows it
TxID(p) == p

(***************************************************************************)
(* Storage layer: Upsert, Delete, UpsertAndDelete, one action per          *)
(* statement that other sessions or the context can interleave with        *)
(***************************************************************************)
runAsChild_never(p) == FALSE
\* asNestedTo(tx): Upsert and Delete run nested when UpsertAndDelete calls them
runAsChild(p) == call[p].op = "UpsertAndDelete"

CtxCheckFails_onlyDeadline(e) == e = "deadline"
\* the switch on ctx.Err() before every commit
CtxCheckFails(e) == e = "deadline" \/ e = "canceled"

\* return from the storage call: the deferred Rollback discards whatever
\* was not committed
Return(p, r) ==
    /\ dbpc' = [dbpc EXCEPT ![p] = "ret"]
    /\ res' = [res EXCEPT ![p] = r]
    /\ tx' = [tx EXCEPT ![p] = NoTx]

Fail_keepsCounts(p, e) ==
    /\ Return(p, [res[p] EXCEPT !.err = e])
    /\ UNCHANGED <<table, txOutcome>>
\* every error return of the three methods: return 0, 0, 0, err
Fail(p, e) ==
    /\ Return(p, [inserted |-> 0, updated |-> 0, deleted |-> 0, err |-> e])
    /\ UNCHANGED <<table, txOutcome>>

\* the check of ctx.Err() before the commit of the outermost transaction:
\* what the context was at that moment, and whether the registry already
\* held a terminal state for the task of the call ("late")
ObserveCtx(p) ==
    txOutcome' = [txOutcome EXCEPT ![p] =
        IF ctxErr[p] # "none" THEN "dead"
        ELSE IF tasks[p].state \in {"Done", "TimedOut", "Canceled", "Aborted"} THEN "late"
        ELSE "live"]

Publish_lost(p, w) ==
    /\ table' = table
    /\ txOutcome' = [txOutcome EXCEPT ![p] = "committed"]
\* the commit of the outermost transaction publishes its writes
Publish(p, w) ==
    /\ table' = View(table, w)
    /\ txOutcome' = [txOutcome EXCEPT ![p] = "committed"]

UpsertAndDeleteBegin_deleteFirst(p) ==
    /\ ~panicked /\ dbpc[p] = "uad_begin"
    /\ \/ Fail(p, "begin")
       \/ /\ dbpc' = [dbpc EXCEPT ![p] =
                IF Len(call[p].offerIDs) # 0 THEN "d_stage"
                ELSE IF Len(call[p].products) # 0 THEN "u_stage"
                ELSE "uad_ctx"]
          /\ UNCHANGED <<table, tx, res, txOutcome>>
    /\ UNCHANGED <<call, ctxErr, panicked, driverVars, schedVars>>

\* UpsertAndDelete: s.db.Begin(ctx), then dispatch on the two lengths
UpsertAndDeleteBegin(p) ==
    /\ ~panicked /\ dbpc[p] = "uad_begin"
    /\ \/ Fail(p, "begin")
       \/ /\ dbpc' = [dbpc EXCEPT ![p] =
                IF Len(call[p].products) # 0 THEN "u_stage"
                ELSE IF Len(call[p].offerIDs) # 0 THEN "d_stage"
                ELSE "uad_ctx"]
          /\ UNCHANGED <<table, tx, res, txOutcome>>
    /\ UNCHANGED <<call, ctxErr, panicked, driverVars, schedVars>>

\* Upsert: Begin, CREATE TEMPORARY TABLE, CopyFrom
UpsertStage(p) ==
    /\ ~panicked /\ dbpc[p] = "u_stage"
    /\ \/ Fail(p, "begin")
       \/ Fail(p, "stmt")
       \/ /\ ~StagingProductsOK(call[p].products)
          /\ Fail(p, "constraint")
       \/ /\ StagingProductsOK(call[p].products)
          /\ dbpc' = [dbpc EXCEPT ![p] = "u_merge"]
          /\ tx' = [tx EXCEPT ![p].inner = tx[p].outer]
          /\ UNCHANGED <<table, res, txOutcome>>
    /\ UNCHANGED <<call, ctxErr, panicked, driverVars, schedVars>>

\* Upsert: INSERT ... ON CONFLICT DO UPDATE ... RETURNING xmax; waits for
\* the rows of the batch another transaction has locked
UpsertMerge(p) ==
    /\ ~panicked /\ dbpc[p] = "u_merge"
    /\ \/ Fail(p, "stmt")
       \/ LET products == call[p].products
              view == View(table, tx[p].inner)
              xmax == xmax_values(view, products, TxID(p))
              merged == MergedView(view, products)
          IN  /\ {KeyOf(products[i]) : i \in DOMAIN products}
                     \cap LockedByOthers(p) = {}
              /\ tx' = [tx EXCEPT ![p].inner =
                    [k \in Keys |->
                        IF \E i \in DOMAIN products : KeyOf(products[i]) = k
                        THEN merged[k] ELSE @[k]]]
              /\ res' = [res EXCEPT ![p].inserted = InsertedOf(xmax),
                                    ![p].updated = UpdatedOf(xmax)]
              /\ dbpc' = [dbpc EXCEPT ![p] = "u_ctx"]
              /\ UNCHANGED <<table, txOutcome>>
    /\ UNCHANGED <<call, ctxErr, panicked, driverVars, schedVars>>

\* Upsert: ctxErr := ctx.Err() after the last statement
UpsertCtxCheck(p) ==
    /\ ~panicked /\ dbpc[p] = "u_ctx"
    /\ IF CtxCheckFails(ctxErr[p])
       THEN Return(p, [inserted |-> 0, updated |-> 0, deleted |-> 0, err |-> ctxErr[p]])
       ELSE /\ dbpc' = [dbpc EXCEPT ![p] = "u_commit"]
            /\ UNCHANGED <<tx, res>>
    /\ IF runAsChild(p) THEN UNCHANGED txOutcome ELSE ObserveCtx(p)
    /\ UNCHANGED <<table, call, ctxErr, panicked, driverVars, schedVars>>

\* Upsert: tx.Commit(ctx). Nested, the commit releases the savepoint into
\* the parent transaction; stand-alone, it publishes the writes
UpsertCommit(p) ==
    /\ ~panicked /\ dbpc[p] = "u_commit"
    /\ \/ Fail(p, "commit")
       \/ /\ runAsChild(p)
          /\ tx' = [tx EXCEPT ![p] = [outer |-> tx[p].inner, inner |-> NoWrites]]
          /\ dbpc' = [dbpc EXCEPT ![p] =
                IF Len(call[p].offerIDs) # 0 THEN "d_stage" ELSE "uad_ctx"]
          /\ UNCHANGED <<table, res, txOutcome>>
       \/ /\ ~runAsChild(p)
          /\ Publish(p, tx[p].inner)
          /\ Return(p, [res[p] EXCEPT !.deleted = 0, !.err = "nil"])
    /\ UNCHANGED <<call, ctxErr, panicked, driverVars, schedVars>>

\* Delete: Begin and, on the large branch, CREATE TEMPORARY TABLE and CopyFrom
DeleteStage(p) ==
    /\ ~panicked /\ dbpc[p] = "d_stage"
    /\ \/ Fail(p, "begin")
       \/ /\ isLarge(call[p].offerIDs)
          /\ Fail(p, "stmt")
       \/ /\ isLarge(call[p].offerIDs)
          /\ ~StagingOfferIDsOK(call[p].offerIDs)
          /\ Fail(p, "constraint")
       \/ /\ isLarge(call[p].offerIDs) => StagingOfferIDsOK(call[p].offerIDs)
          /\ dbpc' = [dbpc EXCEPT ![p] = "d_stmt"]
          /\ tx' = [tx EXCEPT ![p].inner = tx[p].outer]
          /\ UNCHANGED <<table, res, txOutcome>>
    /\ UNCHANGED <<call, ctxErr, panicked, driverVars, schedVars>>

\* Delete: the DELETE statement of the branch taken; waits for the rows it
\* deletes that another transaction has locked. On the small branch the
\* builder indexes offerIDs[len-1] first, which panics on an empty list.
DeleteStmt(p) ==
    /\ ~panicked /\ dbpc[p] = "d_stmt"
    /\ IF ~isLarge(call[p].offerIDs) /\ Len(call[p].offerIDs) = 0
       THEN /\ panicked' = TRUE
            /\ UNCHANGED <<storeVars, txOutcome>>
       ELSE /\ \/ Fail(p, "stmt")
               \/ LET view == View(table, tx[p].inner)
                      rows == DeleteRows(view, call[p].merchantID, call[p].offerIDs)
                  IN  /\ rows \cap LockedByOthers(p) = {}
                      /\ tx' = [tx EXCEPT ![p].inner =
                            [k \in Keys |-> IF k \in rows THEN Absent ELSE @[k]]]
                      /\ res' = [res EXCEPT ![p].deleted = RowsAffected(rows)]
                      /\ dbpc' = [dbpc EXCEPT ![p] = "d_ctx"]
                      /\ UNCHANGED <<table, txOutcome>>
            /\ UNCHANGED panicked
    /\ UNCHANGED <<call, ctxErr, driverVars, schedVars>>

\* Delete: ctxErr := ctx.Err() after the last statement
DeleteCtxCheck(p) ==
    /\ ~panicked /\ dbpc[p] = "d_ctx"
    /\ IF CtxCheckFails(ctxErr[p])
       THEN Return(p, [inserted |-> 0, updated |-> 0, deleted |-> 0, err |-> ctxErr[p]])
       ELSE /\ dbpc' = [dbpc EXCEPT ![p] = "d_commit"]
            /\ UNCHANGED <<tx, res>>
    /\ IF runAsChild(p) THEN UNCHANGED txOutcome ELSE ObserveCtx(p)
    /\ UNCHANGED <<table, call, ctxErr, panicked, driverVars, schedVars>>

\* Delete: tx.Commit(ctx)
DeleteCommit(p) ==
    /\ ~panicked /\ dbpc[p] = "d_commit"
    /\ \/ Fail(p, "commit")
       \/ /\ runAsChild(p)
          /\ tx' = [tx EXCEPT ![p] = [outer |-> tx[p].inner, inner |-> NoWrites]]
          /\ dbpc' = [dbpc EXCEPT ![p] = "uad_ctx"]
          /\ UNCHANGED <<table, res, txOutcome>>
       \/ /\ ~runAsChild(p)
          /\ Publish(p, tx[p].inner)
          /\ Return(p, [res[p] EXCEPT !.inserted = 0, !.updated = 0, !.err = "nil"])
    /\ UNCHANGED <<call, ctxErr, panicked, driverVars, schedVars>>

\* UpsertAndDelete: ctxErr := ctx.Err() once both nested steps returned
UpsertAndDeleteCtxCheck(p) ==
    /\ ~panicked /\ dbpc[p] = "uad_ctx"
    /\ IF CtxCheckFails(ctxErr[p])
       THEN Return(p, [inserted |-> 0, updated |-> 0, deleted |-> 0, err |-> ctxErr[p]])
       ELSE /\ dbpc' = [dbpc EXCEPT ![p] = "uad_commit"]
            /\ UNCHANGED <<tx, res>>
    /\ ObserveCtx(p)
    /\ UNCHANGED <<table, call, ctxErr, panicked, driverVars, schedVars>>

\* UpsertAndDelete: tx.Commit(ctx) of the parent transaction
UpsertAndDeleteCommit(p) ==
    /\ ~panicked /\ dbpc[p] = "uad_commit"
    /\ \/ Fail(p, "commit")
       \/ /\ Publish(p, tx[p].outer)
          /\ Return(p, [res[p] EXCEPT !.err = "nil"])
    /\ UNCHANGED <<call, ctxErr, panicked, driverVars, schedVars>>

Upsert(p) ==
    \/ UpsertStage(p)
    \/ UpsertMerge(p)
    \/ UpsertCtxCheck(p)
    \/ UpsertCommit(p)

Delete(p) ==
    \/ DeleteStage(p)
    \/ DeleteStmt(p)
    \/ DeleteCtxCheck(p)
    \/ DeleteCommit(p)

UpsertAndDelete(p) ==
    \/ UpsertAndDeleteBegin(p)
    \/ UpsertAndDeleteCtxCheck(p)
    \/ UpsertAndDeleteCommit(p)

\* first position of a storage call
EntryOf(op) ==
    CASE op = "Upsert" -> "u_stage"
      [] op = "Delete" -> "d_stage"
      [] op = "UpsertAndDelete" -> "uad_begin"

(***************************************************************************)
(***************************************************************************)
(* Task registry and task types (part_000 1-55, scheduler.go 17-62)        *)
(***************************************************************************)
Processing == "Processing"
Done == "Done"
TimedOut == "TimedOut"
Canceled == "Canceled"
Aborted == "Aborted"
Terminal == {Done, TimedOut, Canceled, Aborted}
\* the id has no entry in taskStore.tasks
NoTask == "NoTask"

ErrBadTaskID == "ErrBadTaskID"
ErrCanNotCancel == "ErrCanNotCancel"

\* dataPayload
Payload(a, u, r, i) == [added |-> a, updated |-> u, removed |-> r, ignored |-> i]
\* the task NewTask stores
NewTaskValue == [state |-> Processing, result |-> Payload(0, 0, 0, 0)]
NoTaskValue == [state |-> NoTask, result |-> Payload(0, 0, 0, 0)]

updateTaskState_reopen(ts, id, state) ==
    [ts EXCEPT ![id].state = IF state = Done THEN Processing ELSE state]
\* Scheduler.updateTaskState
updateTaskState(ts, id, state) == [ts EXCEPT ![id].state = state]

\* taskState.String(), as stringer generates it: the name of the constant
taskState_String(st) ==
    CASE st = Processing -> "Processing"
      [] st = Done -> "Done"
      [] st = TimedOut -> "TimedOut"
      [] st = Canceled -> "Canceled"
      [] st = Aborted -> "Aborted"

\* dataPayload.String(): the pieces fmt.Sprintf puts together
dataPayload_String(d) ==
    <<"Added: ", d.added, ", Updated: ", d.updated,
      ", Removed: ", d.removed, ", Ignored: ", d.ignored>>

StatusText_noStats(tk) == <<"State: ", taskState_String(tk.state)>>
\* the string ReadTaskStatus returns for a task, as the pieces it concatenates
StatusText(tk) ==
    IF tk.state = Done
    THEN <<"State: ", taskState_String(tk.state), "\nStats: ">>
         \o dataPayload_String(tk.result)
    ELSE <<"State: ", taskState_String(tk.state)>>

BadTaskID_onlyMalformed(ts, id) == id = 0
BadTaskID_whileProcessing(ts, id) ==
    IF id = 0 THEN TRUE ELSE ts[id].state \in {NoTask, Processing}
\* the two early returns of ReadTaskStatus and of CancelTask: the string is
\* no xid (id 0), or the registry has no entry for it
BadTaskID(ts, id) == IF id = 0 THEN TRUE ELSE ts[id].state = NoTask

CanNotCancel_onlyDone(st) == st = Done
\* CancelTask: if task.state != Processing { return ErrCanNotCancel }
CanNotCancel(st) == st # Processing

(***************************************************************************)
(* The uploaded sheet and its parsing by processTask (part_000 209-274)    *)
(***************************************************************************)
\* a numeric cell: whether Float() parses it, and its value in halves
Num(h) == [ok |-> TRUE, halves |-> h]
NotANumber == [ok |-> FALSE, halves |-> 0]
\* decimal.NewFromFloat(f).IntPart(): truncation towards zero
IntPart(c) ==
    IF c.halves >= 0 THEN c.halves \div 2 ELSE -((-c.halves) \div 2)
\* decimal.NewFromFloat(f) as stored in the money column, whose unit in the
\* model is one half
PriceOf(c) == c.halves

SheetRow(o, n, p, q, a) ==
    [offer |-> o, name |-> n, price |-> p, quantity |-> q, available |-> a]
\* sh.MaxRow rows, the first of which (coordinate 0) is the header
Sheet(rows) == [opens |-> TRUE, MaxRow |-> Len(rows) + 1, rows |-> rows]
\* a sheet without any row, not even a header
EmptySheet == [opens |-> TRUE, MaxRow |-> 0, rows |-> <<>>]
\* a file xlsx.OpenFile returns an error for
Unreadable == [opens |-> FALSE, MaxRow |-> 0, rows |-> <<>>]

\* the row passes every check of the ForEachRow callback
RowAccepted(r) ==
    /\ r.offer.ok
    /\ r.name # ""
    /\ r.price.ok
    /\ r.quantity.ok
    /\ r.available \in {"true", "false", "1", "0"}
Available(r) == r.available \in {"true", "1"}

toUpsert(sh, merchantID) ==
    LET s == SelectSeq(sh.rows, LAMBDA r : RowAccepted(r) /\ Available(r))
    IN  [i \in 1..Len(s) |->
            Product(merchantID, IntPart(s[i].offer), s[i].name,
                    PriceOf(s[i].price), IntPart(s[i].quantity))]
toDelete(sh) ==
    LET s == SelectSeq(sh.rows, LAMBDA r : RowAccepted(r) /\ ~Available(r))
    IN  [i \in 1..Len(s) |-> IntPart(s[i].offer)]

total_allRows(sh) == sh.MaxRow
\* total := int64(sh.MaxRow) - 1
total(sh) == sh.MaxRow - 1
\* the data rows of a sheet: its rows below the header
DataRows(sh) == Len(sh.rows)

Dispatch_deleteByDefault(sh, merchantID) ==
    LET up == toUpsert(sh, merchantID)
        del == toDelete(sh)
    IN  [op |-> IF Len(up) # 0 /\ Len(del) # 0 THEN "UpsertAndDelete"
                ELSE IF Len(up) # 0 THEN "Upsert"
                ELSE "Delete",
         products |-> IF Len(up) # 0 THEN up ELSE <<>>,
         merchantID |-> merchantID,
         offerIDs |-> IF Len(del) # 0 THEN del ELSE <<>>]

\* the switch that picks the storage call
Dispatch(sh, merchantID) ==
    LET up == toUpsert(sh, merchantID)
        del == toDelete(sh)
    IN  [op |-> IF Len(up) # 0 /\ Len(del) # 0 THEN "UpsertAndDelete"
                ELSE IF Len(up) # 0 THEN "Upsert"
                ELSE IF Len(del) # 0 THEN "Delete"
                ELSE "none",
         products |-> IF Len(up) # 0 THEN up ELSE <<>>,
         merchantID |-> merchantID,
         offerIDs |-> IF Len(del) # 0 THEN del ELSE <<>>]

ResultOf_noRemoved(sh, r) ==
    Payload(r.inserted, r.updated, 0, total(sh) - (r.inserted + r.updated + r.deleted))
\* the taskResult processTask builds from what the storage call returned
ResultOf(sh, r) ==
    Payload(r.inserted, r.updated, r.deleted,
            total(sh) - (r.inserted + r.updated + r.deleted))

\* the merchant whose workbooks the tasks of the model process
UploadMerchant == CHOOSE m \in Merchants : \A n \in Merchants : m <= n
\* three available rows (offers 2 and 4 are new, offer 1 changes its name)
\* and one unavailable row (offer 3)
FourRowSheet ==
    Sheet(<<SheetRow(Num(4), "a", Num(1), Num(2), "true"),
            SheetRow(Num(8), "a", Num(1), Num(2), "true"),
            SheetRow(Num(2), "b", Num(1), Num(2), "true"),
            SheetRow(Num(6), "a", Num(1), Num(2), "false")>>)

\* workbooks that need no storage call
PlainSheets == {Unreadable, EmptySheet}
\* the workbooks uploaded in the model
Sheets ==
    { Unreadable, EmptySheet,
      \* one row that changes the quantity of offer 1
      Sheet(<<SheetRow(Num(2), "a", Num(1), Num(4), "true")>>),
      \* one row that adds offer 2, one that removes offer 1 (cell value 1.5)
      Sheet(<<SheetRow(Num(4), "b", Num(2), Num(2), "1"),
              SheetRow(Num(3), "a", Num(1), Num(2), "false")>>),
      \* one row that removes offer 1, one row without a name
      Sheet(<<SheetRow(Num(2), "a", Num(1), Num(2), "0"),
              SheetRow(Num(4), "", Num(1), Num(2), "true")>>),
      \* one row whose offer id is 0
      Sheet(<<SheetRow(Num(0), "a", Num(1), Num(2), "true")>>),
      FourRowSheet }

\* what the clients do in one run: how many uploads and CancelTask calls
\* they make, whether they poll the status, whether the workbooks are plain
Load(n, k, r, pl) ==
    [tasks |-> n, cancels |-> k, reads |-> r, plain |-> pl, badReads |-> FALSE]
\* a load whose status polls also use malformed ids and ids of no task
WithBadReads(l) == [l EXCEPT !.badReads = TRUE]
NoLoad == Load(0, 0, FALSE, TRUE)
Loads ==
    { Load(NumTasks, 0, FALSE, FALSE),
      Load(1, NumCancels, TRUE, FALSE),
      Load(NumTasks, 1, TRUE, TRUE),
      WithBadReads(Load(1, 1, TRUE, TRUE)) }

\* the four channels schedule makes; TRUE once closed
OpenChans == [cancel |-> FALSE, stop |-> FALSE, abort |-> FALSE, result |-> FALSE]

SchedInit ==
    /\ tasks = [t \in TaskIDs |-> NoTaskValue]
    /\ observed = [t \in TaskIDs |-> NoTask]
    /\ returned = [t \in TaskIDs |-> <<>>]
    /\ readErr = [id \in {0} \cup TaskIDs |-> "none"]
    /\ cancelChannels = [t \in TaskIDs |-> FALSE]
    /\ stopChannels = [t \in TaskIDs |-> FALSE]
    /\ chans = [t \in TaskIDs |-> OpenChans]
    /\ coordLock = 0
    /\ spc = [t \in TaskIDs |-> "none"]
    /\ wpc = [t \in TaskIDs |-> "none"]
    /\ sheet = [t \in TaskIDs |-> EmptySheet]
    /\ cpc = [c \in Callers |-> "idle"]
    /\ ctgt = [c \in Callers |-> 0]
    /\ cret = [c \in Callers |-> "none"]

(***************************************************************************)
(* Storage test driver: one caller makes a planned sequence of storage     *)
(* calls against a fixture table, and keeps what every call returned       *)
(***************************************************************************)
Driver == CHOOSE p \in TaskIDs : \A q \in TaskIDs : p <= q

BaseRow == [Name |-> "a", Price |-> 1, Quantity |-> 1]
\* fixture tables: the rows of merchant 2 are there, those of merchant 1 vary
InitTables ==
    {tbl \in [Keys -> {BaseRow, Absent}] :
        \A k \in Keys : /\ k[1] = 2 => tbl[k] = BaseRow
                        /\ (k[1] = 1 /\ k[2] > MaxOffer) => tbl[k] = Absent}

\* products of merchant 1: for every offer the base row and one changed
\* field at a time, and one product per violated domain constraint
ProductChoices ==
    UNION {{Product(1, o, "a", 1, 1), Product(1, o, "b", 1, 1),
            Product(1, o, "a", 2, 1), Product(1, o, "a", 1, 2)} : o \in 1..MaxOffer}
    \cup {Product(1, 0, "a", 1, 1), Product(1, 1, "", 1, 1),
          Product(1, 1, "a", 0, 1), Product(1, 1, "a", 1, 0)}

SeqsUpTo(S, n) == UNION {[1..m -> S] : m \in 0..n}
Batches == SeqsUpTo(ProductChoices, MaxBatchLen)
\* key lists: offer ids 0..MaxOffer, duplicates and absent keys included
KeyLists == SeqsUpTo(0..MaxOffer, MaxKeyListLen) \ {<<>>}

\* the same logical key set as a list of n keys
PadTo(ids, n) == [i \in 1..n |-> ids[((i - 1) % Len(ids)) + 1]]

\* a planned call: op and arguments; the key list of the call is ids
\* repeated to padTo keys when padTo > 0
UpsertCall(b) ==
    [op |-> "Upsert", products |-> b, merchantID |-> 0, ids |-> <<>>, padTo |-> 0]
DeleteCall(m, ids, n) ==
    [op |-> "Delete", products |-> <<>>, merchantID |-> m, ids |-> ids, padTo |-> n]
UpsertAndDeleteCall(b, m, ids) ==
    [op |-> "UpsertAndDelete", products |-> b, merchantID |-> m, ids |-> ids, padTo |-> 0]
NoPlannedCall ==
    [op |-> "none", products |-> <<>>, merchantID |-> 0, ids |-> <<>>, padTo |-> 0]
OfferIDsOf(c) == IF c.padTo > 0 THEN PadTo(c.ids, c.padTo) ELSE c.ids

DoCall(c) == [kind |-> "call", call |-> c]
Restore == [kind |-> "restore", call |-> NoPlannedCall]

\* the same batch applied twice
UpsertPlans == {<<DoCall(UpsertCall(b)), DoCall(UpsertCall(b))>> : b \in Batches}
\* the same logical key set deleted from the same fixture as a short list,
\* as a list of exactly DeleteThreshold keys and as a longer one
DeletePlans ==
    {<<DoCall(DeleteCall(m, ids, 0)), Restore,
       DoCall(DeleteCall(m, ids, DeleteThreshold)), Restore,
       DoCall(DeleteCall(m, ids, DeleteThreshold + 1))>> :
        m \in Merchants, ids \in KeyLists}
\* one composed call
UpsertAndDeletePlans ==
    {<<DoCall(UpsertAndDeleteCall(b, 1, ids))>> :
        b \in SeqsUpTo(ProductChoices, 1), ids \in SeqsUpTo(0..MaxOffer, 1)}
Plans == UpsertPlans \cup DeletePlans \cup UpsertAndDeletePlans

StoreInit ==
    /\ table0 \in InitTables
    /\ table = table0
    /\ plan \in Plans
    /\ load = NoLoad
    /\ listing = NoListing
    /\ hist = <<>>
    /\ dbpc = [p \in TaskIDs |-> "idle"]
    /\ call = [p \in TaskIDs |-> NoCall]
    /\ tx = [p \in TaskIDs |-> NoTx]
    /\ res = [p \in TaskIDs |-> NoRes]
    /\ ctxErr = [p \in TaskIDs |-> "none"]
    /\ panicked = FALSE
    /\ txOutcome = [p \in TaskIDs |-> "none"]
    /\ SchedInit

\* the driver makes the next planned call, unless the last one failed
DriverCall ==
    /\ ~panicked
    /\ plan # <<>> /\ Head(plan).kind = "call"
    /\ dbpc[Driver] = "idle"
    /\ hist # <<>> => hist[Len(hist)].res.err = "nil"
    /\ LET c == Head(plan).call
       IN  /\ call' = [call EXCEPT ![Driver] =
                 [op |-> c.op, products |-> c.products,
                  merchantID |-> c.merchantID, offerIDs |-> OfferIDsOf(c)]]
           /\ dbpc' = [dbpc EXCEPT ![Driver] = EntryOf(c.op)]
           /\ hist' = Append(hist, [call |-> c, done |-> FALSE, res |-> NoRes,
                                    before |-> table, after |-> table])
    /\ res' = [res EXCEPT ![Driver] = NoRes]
    /\ plan' = Tail(plan)
    /\ txOutcome' = [txOutcome EXCEPT ![Driver] = "none"]
    /\ UNCHANGED <<table, tx, ctxErr, panicked, table0, load, listing, schedVars>>

\* the call returned: the driver records what it returned and the table it left
DriverReturn ==
    /\ ~panicked
    /\ dbpc[Driver] = "ret"
    /\ hist' = [hist EXCEPT ![Len(hist)] =
                    [@ EXCEPT !.done = TRUE, !.res = res[Driver], !.after = table]]
    /\ dbpc' = [dbpc EXCEPT ![Driver] = "idle"]
    /\ call' = [call EXCEPT ![Driver] = NoCall]
    /\ UNCHANGED <<table, tx, res, ctxErr, panicked, txOutcome, plan, table0, load, listing, schedVars>>

\* the driver puts the fixture back
DriverRestore ==
    /\ ~panicked
    /\ plan # <<>> /\ Head(plan).kind = "restore"
    /\ dbpc[Driver] = "idle"
    /\ table' = table0
    /\ plan' = Tail(plan)
    /\ UNCHANGED <<dbpc, call, tx, res, ctxErr, panicked, txOutcome, hist, table0, load, listing, schedVars>>

\* the context of the driver's calls is canceled or passes its deadline
DriverCtxDone ==
    /\ ~panicked
    /\ ctxErr[Driver] = "none"
    /\ \E e \in {"deadline", "canceled"} : ctxErr' = [ctxErr EXCEPT ![Driver] = e]
    /\ UNCHANGED <<storeVars, panicked, txOutcome, driverVars, schedVars>>

StoreNext ==
    \/ DriverCall
    \/ DriverReturn
    \/ DriverRestore
    \/ DriverCtxDone
    \/ Upsert(Driver)
    \/ Delete(Driver)
    \/ UpsertAndDelete(Driver)

StoreSpec == StoreInit /\ [][StoreNext]_vars

(***************************************************************************)
(* Storage.List and its caller                                             *)
(***************************************************************************)
\* the values callers pass to WithMerchantID, WithOfferID and WithNameQuery;
\* the default stands for a call without the option
ListCalls ==
    {ListParameters(m, o, n) :
        m \in {defaultMerchantID} \cup Merchants,
        o \in {defaultOfferID} \cup (1..MaxOffer),
        n \in {defaultNameQuery, "a", "b", "ab"}}

\* a caller calls List with some options
ListCall ==
    /\ ~panicked
    /\ listing.pc = "idle"
    /\ \E lp \in ListCalls : listing' = [listing EXCEPT !.pc = "called", !.parameters = lp]
    /\ UNCHANGED <<storeVars, ctxErr, panicked, txOutcome, plan, hist, table0, load, schedVars>>

\* Storage.List: the query is built and run only inside
\* if parameters.isAnyNonDefault(); otherwise rows stays the nil pgx.Rows
\* and rows.Next() dereferences nil
List ==
    /\ ~panicked
    /\ listing.pc = "called"
    /\ IF isAnyNonDefault(listing.parameters)
       THEN /\ \/ listing' = [listing EXCEPT !.pc = "ret", !.err = "query"]
               \/ listing' = [listing EXCEPT !.pc = "ret", !.rowsErr = TRUE]
               \/ listing' = [listing EXCEPT !.pc = "ret",
                                !.products = ListQueryRows(table, listing.parameters)]
            /\ UNCHANGED panicked
       ELSE /\ listing' = [listing EXCEPT !.pc = "panic"]
            /\ panicked' = TRUE
    /\ UNCHANGED <<storeVars, ctxErr, txOutcome, plan, hist, table0, load, schedVars>>

ListInit ==
    /\ table0 \in InitTables
    /\ table = table0
    /\ plan = <<>>
    /\ hist = <<>>
    /\ load = NoLoad
    /\ listing = NoListing
    /\ dbpc = [p \in TaskIDs |-> "idle"]
    /\ call = [p \in TaskIDs |-> NoCall]
    /\ tx = [p \in TaskIDs |-> NoTx]
    /\ res = [p \in TaskIDs |-> NoRes]
    /\ ctxErr = [p \in TaskIDs |-> "none"]
    /\ panicked = FALSE
    /\ txOutcome = [p \in TaskIDs |-> "none"]
    /\ SchedInit

ListNext ==
    \/ ListCall
    \/ List

ListSpec == ListInit /\ [][ListNext]_vars

(***************************************************************************)
(* Scheduler: NewTask, schedule, CancelTask, ReadTaskStatus                *)
(* (scheduler.go 64-207) and the worker processTask (part_000 201-311)     *)
(***************************************************************************)
scheduleHoldsLock_inCleanup(pc) == pc = "cleanup"
\* the positions of schedule at which it holds s.taskStore.rw: each Lock()
\* is followed by its Unlock() with no blocking operation in between
\* (186-191, 202-206), so at none of the positions between two steps
scheduleHoldsLock(pc) == FALSE

\* s.taskStore.rw is held by some schedule goroutine
registryLocked == \E u \in TaskIDs : scheduleHoldsLock(spc[u])

CancelHoldsRLock_untilReturn(pc) == pc \in {"lock", "send", "blocked"}
\* the positions of CancelTask at which the caller holds the read lock of
\* s.taskStore.rw: RLock and RUnlock surround the one map lookup (117-119),
\* before the coordinator Lock(), so at none of the positions between two
\* steps
CancelHoldsRLock(pc) == FALSE

\* s.taskStore.rw is read-locked by some CancelTask call, which keeps
\* writers out
registryReadLocked == \E c \in Callers : CancelHoldsRLock(cpc[c])

\* NewTask: store the Processing task, then go s.schedule(...)
NewTask(t) ==
    /\ ~panicked
    /\ tasks[t].state = NoTask
    /\ ~registryLocked /\ ~registryReadLocked
    /\ t <= load.tasks
    /\ \A u \in TaskIDs : u < t => tasks[u].state # NoTask
    /\ \E sh \in (IF load.plain THEN PlainSheets ELSE Sheets) :
            sheet' = [sheet EXCEPT ![t] = sh]
    /\ tasks' = [tasks EXCEPT ![t] = NewTaskValue]
    /\ spc' = [spc EXCEPT ![t] = "register"]
    /\ UNCHANGED <<storeVars, ctxErr, panicked, txOutcome, driverVars, observed, returned, readErr,
                   coordVars, wpc, cancelVars>>

\* schedule: the timer of context.WithTimeout fires
Deadline(t) ==
    /\ ~panicked
    /\ spc[t] \notin {"none", "exit"}
    /\ ctxErr[t] = "none"
    /\ ctxErr' = [ctxErr EXCEPT ![t] = "deadline"]
    /\ UNCHANGED <<storeVars, panicked, txOutcome, driverVars, schedVars>>

\* schedule: register the two channels under the coordinator lock, then
\* go processTask(...)
ScheduleRegister(t) ==
    /\ ~panicked
    /\ spc[t] = "register"
    /\ coordLock = 0
    /\ cancelChannels' = [cancelChannels EXCEPT ![t] = TRUE]
    /\ stopChannels' = [stopChannels EXCEPT ![t] = TRUE]
    /\ spc' = [spc EXCEPT ![t] = "select"]
    /\ wpc' = [wpc EXCEPT ![t] = "open"]
    /\ UNCHANGED <<storeVars, ctxErr, panicked, txOutcome, driverVars, registryVars,
                   chans, coordLock, sheet, cancelVars>>

\* schedule, case <-ctx.Done(): updateTaskState(id, TimedOut)
SelectTimeout(t) ==
    /\ ~panicked
    /\ spc[t] = "select"
    /\ ctxErr[t] # "none"
    /\ ~registryLocked /\ ~registryReadLocked
    /\ tasks' = updateTaskState(tasks, t, TimedOut)
    /\ spc' = [spc EXCEPT ![t] = "cleanup"]
    /\ UNCHANGED <<storeVars, ctxErr, panicked, txOutcome, driverVars, observed, returned, readErr,
                   coordVars, wpc, sheet, cancelVars>>

\* schedule, case <-abortCh: updateTaskState(id, Aborted)
SelectAbort(t) ==
    /\ ~panicked
    /\ spc[t] = "select"
    /\ chans[t].abort
    /\ ~registryLocked /\ ~registryReadLocked
    /\ tasks' = updateTaskState(tasks, t, Aborted)
    /\ spc' = [spc EXCEPT ![t] = "cleanup"]
    /\ UNCHANGED <<storeVars, ctxErr, panicked, txOutcome, driverVars, observed, returned, readErr,
                   coordVars, wpc, sheet, cancelVars>>

\* schedule, case <-cancelCh, after the receive: close(stopCh) and
\* updateTaskState(id, Canceled)
ScheduleCanceled(t) ==
    /\ ~panicked
    /\ spc[t] = "canceled"
    /\ ~registryLocked /\ ~registryReadLocked
    /\ chans' = [chans EXCEPT ![t].stop = TRUE]
    /\ tasks' = updateTaskState(tasks, t, Canceled)
    /\ spc' = [spc EXCEPT ![t] = "cleanup"]
    /\ UNCHANGED <<storeVars, ctxErr, panicked, txOutcome, driverVars, observed, returned, readErr,
                   cancelChannels, stopChannels, coordLock, wpc, sheet, cancelVars>>

ScheduleDone_stateOnly(t) ==
    /\ ~panicked
    /\ spc[t] = "done"
    /\ ~registryLocked
    /\ tasks' = updateTaskState(tasks, t, Done)
    /\ spc' = [spc EXCEPT ![t] = "done_again"]
    /\ UNCHANGED <<storeVars, ctxErr, panicked, txOutcome, driverVars, observed, returned, readErr,
                   coordVars, wpc, sheet, cancelVars>>

\* schedule, case result := <-resultCh, after the receive: the write of
\* state and result under the registry lock
ScheduleDone(t) ==
    /\ ~panicked
    /\ spc[t] = "done"
    /\ ~registryLocked /\ ~registryReadLocked
    /\ tasks' = [tasks EXCEPT ![t] = [state |-> Done, result |-> ResultOf(sheet[t], res[t])]]
    /\ spc' = [spc EXCEPT ![t] = "done_again"]
    /\ UNCHANGED <<storeVars, ctxErr, panicked, txOutcome, driverVars, observed, returned, readErr,
                   coordVars, wpc, sheet, cancelVars>>

\* schedule, same case: the updateTaskState(id, Done) that follows
ScheduleDoneAgain(t) ==
    /\ ~panicked
    /\ spc[t] = "done_again"
    /\ ~registryLocked /\ ~registryReadLocked
    /\ tasks' = updateTaskState(tasks, t, Done)
    /\ spc' = [spc EXCEPT ![t] = "cleanup"]
    /\ UNCHANGED <<storeVars, ctxErr, panicked, txOutcome, driverVars, observed, returned, readErr,
                   coordVars, wpc, sheet, cancelVars>>

\* schedule: delete the two map entries under the coordinator lock, return;
\* the deferred cancel() ends the context
ScheduleCleanup(t) ==
    /\ ~panicked
    /\ spc[t] = "cleanup"
    /\ coordLock = 0
    /\ cancelChannels' = [cancelChannels EXCEPT ![t] = FALSE]
    /\ stopChannels' = [stopChannels EXCEPT ![t] = FALSE]
    /\ spc' = [spc EXCEPT ![t] = "exit"]
    /\ ctxErr' = [ctxErr EXCEPT ![t] = IF @ = "none" THEN "canceled" ELSE @]
    /\ UNCHANGED <<storeVars, panicked, txOutcome, driverVars, registryVars,
                   chans, coordLock, wpc, sheet, cancelVars>>

schedule(t) ==
    \/ ScheduleRegister(t)
    \/ SelectTimeout(t)
    \/ SelectAbort(t)
    \/ ScheduleCanceled(t)
    \/ ScheduleDone(t)
    \/ ScheduleDoneAgain(t)
    \/ ScheduleCleanup(t)

\* processTask: xlsx.OpenFile fails and the worker closes abortChannel, or
\* the sheet is parsed and the storage call picked
WorkerOpen(t) ==
    /\ ~panicked
    /\ wpc[t] = "open"
    /\ \/ /\ ~sheet[t].opens
          /\ chans' = [chans EXCEPT ![t].abort = TRUE]
          /\ wpc' = [wpc EXCEPT ![t] = "exit"]
          /\ UNCHANGED <<dbpc, call, res, txOutcome>>
       \/ LET c == Dispatch(sheet[t], UploadMerchant)
          IN  /\ sheet[t].opens
              /\ call' = [call EXCEPT ![t] = c]
              /\ dbpc' = [dbpc EXCEPT ![t] = IF c.op = "none" THEN "ret" ELSE EntryOf(c.op)]
              /\ res' = [res EXCEPT ![t] = NoRes]
              /\ txOutcome' = [txOutcome EXCEPT ![t] = "none"]
              /\ wpc' = [wpc EXCEPT ![t] = "db"]
              /\ UNCHANGED chans
    /\ UNCHANGED <<table, tx, ctxErr, panicked, driverVars, registryVars,
                   cancelChannels, stopChannels, coordLock, spc, sheet, cancelVars>>

WorkerReturned_ignoresError(t) ==
    /\ ~panicked
    /\ wpc[t] = "db"
    /\ dbpc[t] = "ret"
    /\ wpc' = [wpc EXCEPT ![t] = IF ctxErr[t] = "none" THEN "send" ELSE "exit"]
    /\ dbpc' = [dbpc EXCEPT ![t] = "idle"]
    /\ UNCHANGED <<table, call, tx, res, chans, ctxErr, panicked, txOutcome, driverVars,
                   registryVars, cancelChannels, stopChannels, coordLock, spc, sheet, cancelVars>>

\* processTask, after the storage call: close abortChannel on an error;
\* otherwise build the result and send it if ctx.Err() == nil
WorkerReturned(t) ==
    /\ ~panicked
    /\ wpc[t] = "db"
    /\ dbpc[t] = "ret"
    /\ IF res[t].err # "nil"
       THEN /\ chans' = [chans EXCEPT ![t].abort = TRUE]
            /\ wpc' = [wpc EXCEPT ![t] = "exit"]
            /\ res' = [res EXCEPT ![t] = NoRes]
       ELSE /\ wpc' = [wpc EXCEPT ![t] = IF ctxErr[t] = "none" THEN "send" ELSE "exit"]
            /\ UNCHANGED <<chans, res>>
    /\ dbpc' = [dbpc EXCEPT ![t] = "idle"]
    /\ UNCHANGED <<table, call, tx, ctxErr, panicked, txOutcome, driverVars, registryVars,
                   cancelChannels, stopChannels, coordLock, spc, sheet, cancelVars>>

\* processTask: resultChannel <- result meets the receive of schedule's
\* select; the worker then closes both channels and returns
WorkerSend(t) ==
    /\ ~panicked
    /\ wpc[t] = "send"
    /\ spc[t] = "select"
    /\ spc' = [spc EXCEPT ![t] = "done"]
    /\ wpc' = [wpc EXCEPT ![t] = "exit"]
    /\ chans' = [chans EXCEPT ![t].result = TRUE, ![t].abort = TRUE]
    /\ UNCHANGED <<storeVars, ctxErr, panicked, txOutcome, driverVars, registryVars,
                   cancelChannels, stopChannels, coordLock, sheet, cancelVars>>

processTask(t) ==
    \/ WorkerOpen(t)
    \/ WorkerReturned(t)
    \/ WorkerSend(t)

\* ReadTaskStatus of a known id: the state read under the registry lock
ReadTaskStatus(t) ==
    /\ ~panicked
    /\ load.reads
    /\ ~registryLocked
    /\ tasks[t].state # NoTask
    /\ observed[t] # tasks[t].state
    /\ observed' = [observed EXCEPT ![t] = tasks[t].state]
    /\ returned' = [returned EXCEPT ![t] = StatusText(tasks[t])]
    /\ readErr' = [readErr EXCEPT ![t] = "nil"]
    /\ UNCHANGED <<storeVars, ctxErr, panicked, txOutcome, driverVars, tasks,
                   coordVars, goVars, cancelVars>>

\* ReadTaskStatus of a string xid.FromString rejects (id 0) or of an id
\* without an entry in the registry: return "", ErrBadTaskID
ReadTaskStatusBadID(id) ==
    /\ ~panicked
    /\ load.reads /\ load.badReads
    /\ id # 0 => ~registryLocked
    /\ BadTaskID(tasks, id)
    /\ readErr[id] # ErrBadTaskID
    /\ readErr' = [readErr EXCEPT ![id] = ErrBadTaskID]
    /\ UNCHANGED <<storeVars, ctxErr, panicked, txOutcome, driverVars, tasks, observed,
                   returned, coordVars, goVars, cancelVars>>

\* CancelTask up to its last early return; id 0 stands for a string that
\* xid.FromString rejects
CancelRead(c) ==
    /\ ~panicked
    /\ cpc[c] = "idle"
    /\ c <= load.cancels
    /\ \A d \in Callers : d < c => cpc[d] # "idle"
    /\ \E id \in {0} \cup TaskIDs :
        /\ id # 0 => ~registryLocked
        /\ ctgt' = [ctgt EXCEPT ![c] = id]
        /\ IF BadTaskID(tasks, id)
           THEN /\ cret' = [cret EXCEPT ![c] = ErrBadTaskID]
                /\ cpc' = [cpc EXCEPT ![c] = "ret"]
           ELSE IF CanNotCancel(tasks[id].state)
           THEN /\ cret' = [cret EXCEPT ![c] = ErrCanNotCancel]
                /\ cpc' = [cpc EXCEPT ![c] = "ret"]
           ELSE /\ cpc' = [cpc EXCEPT ![c] = "lock"]
                /\ UNCHANGED cret
    /\ UNCHANGED <<storeVars, ctxErr, panicked, txOutcome, driverVars, registryVars,
                   coordVars, goVars>>

\* CancelTask: s.cancelChannels.rw.Lock() and the lookup of the channel to
\* send on; a missing entry yields a nil channel, and a send on a nil
\* channel blocks forever
CancelLock(c) ==
    /\ ~panicked
    /\ cpc[c] = "lock"
    /\ coordLock = 0
    /\ coordLock' = c
    /\ cpc' = [cpc EXCEPT ![c] = IF cancelChannels[ctgt[c]] THEN "send" ELSE "blocked"]
    /\ UNCHANGED <<storeVars, ctxErr, panicked, txOutcome, driverVars, registryVars,
                   cancelChannels, stopChannels, chans, goVars, ctgt, cret>>

\* CancelTask: the send on the cancel channel. On a closed channel it
\* panics; otherwise it meets the receive of schedule's select, and the
\* caller closes the channel, unlocks and returns nil
CancelSend(c) ==
    /\ ~panicked
    /\ cpc[c] = "send"
    /\ IF chans[ctgt[c]].cancel
       THEN /\ panicked' = TRUE
            /\ cpc' = [cpc EXCEPT ![c] = "panic"]
            /\ UNCHANGED <<chans, coordLock, spc, cret>>
       ELSE /\ spc[ctgt[c]] = "select"
            /\ spc' = [spc EXCEPT ![ctgt[c]] = "canceled"]
            /\ chans' = [chans EXCEPT ![ctgt[c]].cancel = TRUE]
            /\ coordLock' = 0
            /\ cret' = [cret EXCEPT ![c] = "nil"]
            /\ cpc' = [cpc EXCEPT ![c] = "ret"]
            /\ UNCHANGED panicked
    /\ UNCHANGED <<storeVars, ctxErr, txOutcome, driverVars, registryVars,
                   cancelChannels, stopChannels, wpc, sheet, ctgt>>

CancelTask(c) ==
    \/ CancelRead(c)
    \/ CancelLock(c)
    \/ CancelSend(c)

\* the products table when the service starts
FixtureTable ==
    [k \in Keys |-> IF k[1] = UploadMerchant /\ k[2] % 2 = 0 THEN Absent ELSE BaseRow]

Init ==
    /\ table = FixtureTable
    /\ table0 = FixtureTable
    /\ plan = <<>>
    /\ hist = <<>>
    /\ load \in Loads
    /\ listing = NoListing
    /\ dbpc = [p \in TaskIDs |-> "idle"]
    /\ call = [p \in TaskIDs |-> NoCall]
    /\ tx = [p \in TaskIDs |-> NoTx]
    /\ res = [p \in TaskIDs |-> NoRes]
    /\ ctxErr = [p \in TaskIDs |-> "none"]
    /\ panicked = FALSE
    /\ txOutcome = [p \in TaskIDs |-> "none"]
    /\ SchedInit

Next ==
    \/ \E t \in TaskIDs : NewTask(t)
    \/ \E t \in TaskIDs : Deadline(t)
    \/ \E t \in TaskIDs : schedule(t)
    \/ \E t \in TaskIDs : processTask(t)
    \/ \E t \in TaskIDs : Upsert(t)
    \/ \E t \in TaskIDs : Delete(t)
    \/ \E t \in TaskIDs : UpsertAndDelete(t)
    \/ \E t \in TaskIDs : ReadTaskStatus(t)
    \/ \E id \in {0} \cup TaskIDs : ReadTaskStatusBadID(id)
    \/ \E c \in Callers : CancelTask(c)

Spec == Init /\ [][Next]_vars

\* every goroutine that can take a step eventually takes one, and the timer
\* of a context eventually fires; when clients make their calls is up to them
Fairness ==
    /\ \A t \in TaskIDs :
        /\ WF_vars(schedule(t))
        /\ WF_vars(processTask(t))
        /\ WF_vars(Upsert(t) \/ Delete(t) \/ UpsertAndDelete(t))
        /\ WF_vars(Deadline(t))
    /\ \A c \in Callers : WF_vars(CancelLock(c) \/ CancelSend(c))

FairSpec == Spec /\ Fairness

(***************************************************************************)
(* Claims about the storage layer, checked under StoreSpec                 *)
(***************************************************************************)
DoneCalls(op) == {n \in DOMAIN hist : hist[n].done /\ hist[n].call.op = op}
BatchKeys(b) == {KeyOf(b[i]) : i \in DOMAIN b}
\* an error the environment injected (connection, context), not one the
\* arguments of the call decide
EnvironmentError(e) == e \in {"begin", "stmt", "commit", "deadline", "canceled"}

\* C8: Upsert is idempotent: the same batch applied a second time right
\* after a committed first application returns inserted = 0 and
\* updated = 0 and leaves the table as it was.
C8_UpsertIdempotent ==
    \A n \in DoneCalls("Upsert") :
        (n > 1 /\ hist[n - 1].call = hist[n].call /\ hist[n - 1].res.err = "nil")
        => /\ hist[n].res.inserted = 0
           /\ hist[n].res.updated = 0
           /\ hist[n].after = hist[n].before

\* a second application that committed, after a first one that wrote rows
C8_Witness ==
    \E n \in DoneCalls("Upsert") :
        /\ n > 1 /\ hist[n - 1].call = hist[n].call
        /\ hist[n - 1].res.err = "nil" /\ hist[n].res.err = "nil"
        /\ hist[n - 1].res.inserted > 0 /\ hist[n - 1].res.updated > 0

\* C9: a committed Upsert of a batch with distinct keys returns as inserted
\* the number of batch keys absent from the table, as updated the number of
\* batch keys present with a different name, price or quantity; batch keys
\* present with the same row count in neither and keep their row, every
\* other batch key holds the incoming row, and no other row changes.
C9_UpsertClassification ==
    \A n \in DoneCalls("Upsert") :
        LET h == hist[n]
            b == h.call.products
            absent == {i \in DOMAIN b : h.before[KeyOf(b[i])] = Absent}
            changed == {i \in DOMAIN b : /\ h.before[KeyOf(b[i])] # Absent
                                         /\ h.before[KeyOf(b[i])] # RowOf(b[i])}
        IN  h.res.err = "nil"
            => /\ h.res.inserted = Cardinality(absent)
               /\ h.res.updated = Cardinality(changed)
               /\ \A i \in DOMAIN b : h.after[KeyOf(b[i])] = RowOf(b[i])
               /\ \A k \in Keys \ BatchKeys(b) : h.after[k] = h.before[k]

\* a committed Upsert that inserted one row and updated another
C9_Witness ==
    \E n \in DoneCalls("Upsert") :
        /\ hist[n].res.err = "nil"
        /\ hist[n].res.inserted = 1 /\ hist[n].res.updated = 1

\* C10: for the same merchant id, table content and logical set of offer
\* ids, the values-list branch and the staging-table branch of Delete
\* remove the same rows and report the same deleted count.
C10_DeleteBranchesAgree ==
    \A i, j \in DoneCalls("Delete") :
        (/\ hist[i].call.merchantID = hist[j].call.merchantID
         /\ hist[i].call.ids = hist[j].call.ids
         /\ hist[i].before = hist[j].before
         /\ hist[i].call.padTo <= DeleteThreshold
         /\ hist[j].call.padTo > DeleteThreshold
         /\ ~EnvironmentError(hist[i].res.err)
         /\ ~EnvironmentError(hist[j].res.err))
        => /\ hist[i].res = hist[j].res
           /\ hist[i].after = hist[j].after

\* what UpsertAndDelete leaves when it commits: the upsert applied, then
\* the delete applied to its outcome
BothApplied(before, c) ==
    LET merged == MergedView(before, c.products)
        rows == IF Len(c.ids) # 0
                THEN DeleteRows(merged, c.merchantID, c.ids) ELSE {}
    IN  [k \in Keys |-> IF k \in rows THEN Absent ELSE merged[k]]

\* C6: UpsertAndDelete is atomic: at every moment of the call the table
\* other sessions read holds none of the batch's upserts and deletes, or,
\* once the outer commit succeeded, all of them; a call that returns an
\* error (a nested step failed, the context ended, the commit failed)
\* leaves the table as it was.
C6_UpsertAndDeleteAtomic ==
    \A n \in DOMAIN hist :
        hist[n].call.op = "UpsertAndDelete" =>
            LET h == hist[n]
                all == BothApplied(h.before, h.call)
            IN  /\ (~h.done /\ dbpc[Driver] # "ret") => table = h.before
                /\ (~h.done /\ dbpc[Driver] = "ret") =>
                        table = IF res[Driver].err = "nil" THEN all ELSE h.before
                /\ h.done => h.after = IF h.res.err = "nil" THEN all ELSE h.before

\* a committed UpsertAndDelete that wrote a row and removed another
C6_Witness ==
    \E n \in DoneCalls("UpsertAndDelete") :
        /\ hist[n].res.err = "nil"
        /\ hist[n].res.inserted + hist[n].res.updated > 0
        /\ hist[n].res.deleted > 0
        /\ hist[n].after # hist[n].before

\* caller p stands at the check of ctx.Err() of Upsert, Delete or
\* UpsertAndDelete, or at the tx.Commit that follows it
AtCtxCheck(p) == dbpc[p] \in {"u_ctx", "d_ctx", "uad_ctx"}
AtCommit(p) == dbpc[p] \in {"u_commit", "d_commit", "uad_commit"}

\* C27: Upsert, Delete and UpsertAndDelete check the context after their
\* last statement and before the commit; when the context is canceled or
\* past its deadline at that check the call returns the context error
\* with all counts zero and does not commit: its writes are discarded and
\* the table stays as it was.
C27_CtxCheckBeforeCommit ==
    [][\A p \in TaskIDs :
        /\ (AtCtxCheck(p) /\ ctxErr[p] \in {"deadline", "canceled"} /\ dbpc'[p] # dbpc[p])
            => /\ dbpc'[p] = "ret"
               /\ res'[p] = [inserted |-> 0, updated |-> 0, deleted |-> 0, err |-> ctxErr[p]]
               /\ tx'[p] = NoTx
               /\ table' = table
        /\ (~AtCommit(p) /\ dbpc'[p] \in {"u_commit", "d_commit", "uad_commit"})
            => AtCtxCheck(p) /\ ctxErr[p] = "none"
        /\ table' # table => AtCommit(p) \/ dbpc[p] = "idle"]_vars
\* an UpsertAndDelete call whose statements had changed rows returned the
\* context error, and the table is as it was before the call
C27_Witness ==
    \E n \in DoneCalls("UpsertAndDelete") :
        /\ hist[n].res = [inserted |-> 0, updated |-> 0, deleted |-> 0, err |-> "canceled"]
        /\ BothApplied(hist[n].before, hist[n].call) # hist[n].before
        /\ hist[n].after = hist[n].before

\* C28: Delete picks its branch by the length of the key list with
\* threshold 500: a list of fewer than 500 keys goes to the DELETE with
\* the explicit value list, a list of 500 keys or more (exactly 500
\* included) to the DELETE that uses the staging table.
C28_DeleteThreshold ==
    \A p \in TaskIDs :
        (call[p].op = "Delete" /\ dbpc[p] \in {"d_stmt", "d_ctx", "d_commit"})
        => (isLarge(call[p].offerIDs) <=> Len(call[p].offerIDs) >= DeleteThreshold)

\* C30: when Upsert, Delete or UpsertAndDelete returns an error (Begin, a
\* statement, the context check or the commit failed) all the counts it
\* returns are zero and the products table other transactions see is what
\* it was before the call.
C30_ErrorLeavesTable ==
    \A n \in DOMAIN hist :
        LET h == hist[n]
        IN  /\ (~h.done /\ dbpc[Driver] = "ret" /\ res[Driver].err # "nil")
                => /\ res[Driver].inserted = 0
                   /\ res[Driver].updated = 0
                   /\ res[Driver].deleted = 0
                   /\ table = h.before
            /\ (h.done /\ h.res.err # "nil")
                => /\ h.res.inserted = 0
                   /\ h.res.updated = 0
                   /\ h.res.deleted = 0
                   /\ h.after = h.before
\* an Upsert whose batch differs from the table failed at its commit, a
\* Delete of present rows failed at a statement or at its commit
C30_Witness ==
    \/ \E n \in DoneCalls("Upsert") :
            /\ hist[n].res.err = "commit"
            /\ MergedView(hist[n].before, hist[n].call.products) # hist[n].before
            /\ hist[n].after = hist[n].before
    \/ \E n \in DoneCalls("Delete") :
            /\ hist[n].res.err \in {"stmt", "commit"}
            /\ DeleteRows(hist[n].before, hist[n].call.merchantID, hist[n].call.ids) # {}
            /\ hist[n].after = hist[n].before

\* the positions of the nested Upsert and of the nested Delete
UpsertSteps == {"u_stage", "u_merge", "u_ctx", "u_commit"}
DeleteSteps == {"d_stage", "d_stmt", "d_ctx", "d_commit"}

\* C35: UpsertAndDelete runs the upsert step before the delete step in one
\* outer transaction: a call with products starts with the upsert, the
\* delete is never followed by the upsert, nothing is published before
\* the one commit of the outer transaction, which is reached only from
\* the context check with both steps done and the context live; so after
\* a successful call an offer id that is both in toUpsert and in toDelete
\* is absent from the table.
C35_UpsertThenDelete ==
    /\ [][\A p \in TaskIDs :
            call[p].op = "UpsertAndDelete" =>
                /\ (dbpc[p] = "uad_begin" /\ dbpc'[p] \in DeleteSteps)
                        => Len(call[p].products) = 0
                /\ dbpc[p] \in DeleteSteps => dbpc'[p] \notin UpsertSteps
                /\ (dbpc[p] # "uad_commit" /\ dbpc'[p] = "uad_commit")
                        => dbpc[p] = "uad_ctx" /\ ctxErr[p] = "none"
                /\ (dbpc[p] # "uad_ctx" /\ dbpc'[p] = "uad_ctx")
                        => dbpc[p] \in {"uad_begin", "u_commit", "d_commit"}
                /\ table' # table => dbpc[p] = "uad_commit" /\ dbpc'[p] = "ret"]_vars
    /\ [](\A n \in DoneCalls("UpsertAndDelete") :
            hist[n].res.err = "nil" =>
                \A i \in DOMAIN hist[n].call.products :
                    LET pr == hist[n].call.products[i]
                    IN  (pr.MerchantID = hist[n].call.merchantID
                         /\ pr.OfferID \in Range(hist[n].call.ids))
                        => hist[n].after[KeyOf(pr)] = Absent)
\* a successful call that upserted a row absent before and deleted the
\* same offer id: the row is absent afterwards
C35_Witness ==
    \E n \in DoneCalls("UpsertAndDelete") :
        /\ hist[n].res = [inserted |-> 1, updated |-> 0, deleted |-> 1, err |-> "nil"]
        /\ \E i \in DOMAIN hist[n].call.products :
                /\ hist[n].call.products[i].OfferID \in Range(hist[n].call.ids)
                /\ hist[n].before[KeyOf(hist[n].call.products[i])] = Absent
                /\ hist[n].after[KeyOf(hist[n].call.products[i])] = Absent

(***************************************************************************)
(* Claims about the scheduler, checked under Spec and FairSpec             *)
(***************************************************************************)
\* C1: under fair scheduling every task NewTask created eventually has one
\* of Done, TimedOut, Canceled, Aborted as its recorded state, whatever
\* CancelTask and ReadTaskStatus calls are made, and a recorded terminal
\* state never changes.
C1_EventuallyTerminal ==
    /\ \A t \in TaskIDs :
        [](tasks[t].state = Processing => <>(tasks[t].state \in Terminal))
    /\ [][\A t \in TaskIDs :
            tasks[t].state \in Terminal => tasks'[t].state = tasks[t].state]_vars

\* C2: the states ReadTaskStatus returns for a task are monotonic:
\* Processing may be followed by Processing or by a terminal state, a
\* terminal state only by itself.
C2_ObservedMonotonic ==
    [][\A t \in TaskIDs :
        /\ observed[t] \in Terminal => observed'[t] = observed[t]
        /\ observed[t] = Processing => observed'[t] \in {Processing} \cup Terminal]_vars

\* ReadTaskStatus has returned the terminal state of a task whose schedule
\* goroutine has finished
C2_Witness ==
    \E t \in TaskIDs :
        /\ observed[t] \in Terminal
        /\ spc[t] = "exit"
        /\ tasks[t].state = observed[t]

\* C3: a CancelTask call that finds the task in a state other than
\* Processing returns ErrCanNotCancel at once, without touching a channel,
\* the coordinator maps or lock, and leaves every task's state and result
\* as they were.
C3_CancelNotProcessing ==
    [][\A c \in Callers :
        (/\ cpc[c] = "idle" /\ cpc'[c] # "idle"
         /\ ctgt'[c] \in TaskIDs
         /\ tasks[ctgt'[c]].state \in Terminal)
        => /\ cret'[c] = ErrCanNotCancel
           /\ cpc'[c] = "ret"
           /\ UNCHANGED <<tasks, cancelChannels, stopChannels, chans, coordLock, spc>>]_vars

\* a CancelTask call on a finished task has returned ErrCanNotCancel
C3_Witness ==
    \E c \in Callers :
        /\ cpc[c] = "ret" /\ cret[c] = ErrCanNotCancel
        /\ tasks[ctgt[c]].state \in Terminal

\* C4: of two CancelTask calls for the same task, once one has returned
\* success the other neither panics on the closed cancel channel nor sits
\* forever in a send on a missing channel.
C4_ConcurrentCancels ==
    \A c, d \in Callers :
        (/\ c # d
         /\ ctgt[c] \in TaskIDs /\ ctgt[d] = ctgt[c]
         /\ cpc[c] = "ret" /\ cret[c] = "nil")
        => cpc[d] \notin {"panic", "blocked"}

\* the outermost transaction of the task's storage call committed writes
Effect(t) ==
    /\ txOutcome[t] = "committed"
    /\ res[t].inserted + res[t].updated + res[t].deleted > 0

\* C5: a task recorded as TimedOut has left no effect in the products
\* table: none of its upserts or deletes was committed.
C5_TimedOutNoEffect ==
    \A t \in TaskIDs : tasks[t].state = TimedOut => ~Effect(t)

\* C7: a task recorded as Done has ignored = total - (added + updated +
\* removed), total being the number of data rows of its sheet.
C7_IgnoredBalance ==
    \A t \in TaskIDs :
        tasks[t].state = Done =>
            tasks[t].result.ignored =
                DataRows(sheet[t]) - (tasks[t].result.added + tasks[t].result.updated
                                      + tasks[t].result.removed)

\* C11: a task whose sheet has four valid rows - three available (two keys
\* absent from the table, one present with a changed field) and one
\* unavailable whose key is present - and whose storage call committed on
\* the table no other task had written, if it ends neither Canceled nor
\* TimedOut, ends Done with added = 2, updated = 1, removed = 1, ignored = 0.
C11_FourRowBatch ==
    \A t \in TaskIDs :
        (/\ sheet[t] = FourRowSheet
         /\ txOutcome[t] = "committed"
         /\ \A u \in TaskIDs \ {t} : txOutcome[u] # "committed"
         /\ tasks[t].state \in Terminal \ {Canceled, TimedOut})
        => /\ tasks[t].state = Done
           /\ tasks[t].result = Payload(2, 1, 1, 0)

\* such a task is Done, and the table holds its four changes
C11_Witness ==
    \E t \in TaskIDs :
        /\ sheet[t] = FourRowSheet
        /\ tasks[t].state = Done
        /\ tasks[t].result = Payload(2, 1, 1, 0)
        /\ table[<<UploadMerchant, 1>>].Name = "b"
        /\ table[<<UploadMerchant, 2>>] # Absent
        /\ table[<<UploadMerchant, 3>>] = Absent
        /\ table[<<UploadMerchant, 4>>] # Absent

\* C12: ReadTaskStatus of a known task returns "State: " followed by the
\* name of the state recorded at that moment; the text goes on with
\* "\nStats: " and the four counters of the task's result if and only if
\* that state is Done.
C12_StatusText ==
    [][\A t \in TaskIDs :
        returned'[t] # returned[t] =>
            LET txt == returned'[t]
                tk == tasks[t]
            IN  /\ Len(txt) >= 2
                /\ txt[1] = "State: "
                /\ txt[2] = tk.state
                /\ (Len(txt) > 2) <=> (tk.state = Done)
                /\ tk.state = Done =>
                    SubSeq(txt, 3, Len(txt)) =
                        <<"\nStats: ", "Added: ", tk.result.added,
                          ", Updated: ", tk.result.updated,
                          ", Removed: ", tk.result.removed,
                          ", Ignored: ", tk.result.ignored>>]_vars

\* ReadTaskStatus has returned the statistics of a Done task that wrote rows
C12_Witness ==
    \E t \in TaskIDs :
        /\ observed[t] = Done
        /\ Len(returned[t]) > 2
        /\ tasks[t].result.added + tasks[t].result.updated + tasks[t].result.removed > 0

\* C13: ReadTaskStatus and CancelTask called with a malformed id or with an
\* id NewTask was never given return ErrBadTaskID, touch no channel, and
\* leave the registry, the coordinator maps and the coordinator lock as
\* they were.
C13_BadTaskID ==
    [][/\ \A id \in {0} \cup TaskIDs :
            (/\ readErr'[id] # readErr[id]
             /\ IF id = 0 THEN TRUE ELSE tasks[id].state = NoTask)
            => /\ readErr'[id] = ErrBadTaskID
               /\ UNCHANGED <<tasks, observed, returned, cancelChannels,
                              stopChannels, chans, coordLock, spc, wpc>>
       /\ \A c \in Callers :
            (/\ cpc[c] = "idle" /\ cpc'[c] # "idle"
             /\ IF ctgt'[c] = 0 THEN TRUE ELSE tasks[ctgt'[c]].state = NoTask)
            => /\ cret'[c] = ErrBadTaskID
               /\ cpc'[c] = "ret"
               /\ UNCHANGED <<tasks, observed, returned, cancelChannels,
                              stopChannels, chans, coordLock, spc, wpc>>]_vars

\* both operations have been refused an id of no task, and ReadTaskStatus a
\* malformed one
C13_Witness ==
    /\ readErr[0] = ErrBadTaskID
    /\ \E t \in TaskIDs : tasks[t].state = NoTask /\ readErr[t] = ErrBadTaskID
    /\ \E c \in Callers :
        /\ cpc[c] = "ret" /\ cret[c] = ErrBadTaskID
        /\ ctgt[c] \in TaskIDs /\ tasks[ctgt[c]].state = NoTask

\* the next upload of the run: the clients have one more to make, and the
\* ids below t are taken
NextUpload(t) ==
    /\ t <= load.tasks
    /\ tasks[t].state = NoTask
    /\ \A u \in TaskIDs : u < t => tasks[u].state # NoTask

\* C14: NewTask can complete whatever the workers, the schedule goroutines
\* and the CancelTask calls of the process are doing; it records the task
\* as Processing, the entry is never removed, and from then on
\* ReadTaskStatus of that id never returns ErrBadTaskID but the recorded
\* state, Processing or terminal.
C14_NewTaskThenReadable ==
    /\ [](\A t \in TaskIDs : (~panicked /\ NextUpload(t)) => ENABLED NewTask(t))
    /\ [][\A t \in TaskIDs :
            /\ (tasks[t].state = NoTask /\ tasks'[t].state # NoTask)
                    => tasks'[t] = NewTaskValue
            /\ tasks[t].state # NoTask => tasks'[t].state \in {Processing} \cup Terminal
            /\ (tasks[t].state # NoTask /\ readErr'[t] # readErr[t])
                    => /\ readErr'[t] = "nil"
                       /\ observed'[t] = tasks[t].state
                       /\ observed'[t] \in {Processing} \cup Terminal]_vars

\* a second task was created and read as Processing while a CancelTask call
\* for the first one sits in its send with the coordinator lock
C14_Witness ==
    \E t, u \in TaskIDs :
        /\ t # u
        /\ coordLock # 0
        /\ cpc[coordLock] = "blocked" /\ ctgt[coordLock] = u
        /\ spc[t] = "register"
        /\ readErr[t] = "nil" /\ observed[t] = Processing

(***************************************************************************)
(* Claims about Storage.List, checked under ListSpec                       *)
(***************************************************************************)
\* the products that satisfy every supplied filter
Matching(tbl, lp) ==
    {Product(k[1], k[2], tbl[k].Name, tbl[k].Price, tbl[k].Quantity) :
        k \in {j \in Present(tbl) :
                /\ lp.merchantID # 0 => j[1] = lp.merchantID
                /\ lp.offerID # 0 => j[2] = lp.offerID
                /\ lp.nameQuery # "" =>
                        \E rest \in {"", "a", "b"} :
                            Chars(tbl[j].Name) = Chars(lp.nameQuery) \o Chars(rest)}}

\* C15: for each of the 8 combinations of supplied and omitted filters
\* (merchant id, offer id, name prefix) List runs a query, and unless the
\* database fails it returns exactly the products that satisfy every
\* supplied filter, all products when none is supplied.
C15_ListFilters ==
    /\ listing.pc # "panic"
    /\ (listing.pc = "ret" /\ listing.err = "nil" /\ ~listing.rowsErr)
            => listing.products = Matching(table, listing.parameters)

\* C16: under fair scheduling the worker of every task terminates: once
\* processTask has started it eventually returns, whichever case the select
\* of schedule takes and whenever the context ends; it is never left blocked
\* on the send to the result channel.
C16_WorkerTerminates ==
    \A t \in TaskIDs : (wpc[t] \in {"open", "db", "send"}) ~> (wpc[t] = "exit" \/ panicked)

\* C17: the worker of a task signals (sends on or closes) at most one of
\* its abort channel and its result channel.
C17_AtMostOneSignal ==
    \A t \in TaskIDs : ~(chans[t].result /\ chans[t].abort)

\* C18: under fair scheduling every CancelTask call that went past its
\* checks eventually returns, whatever the worker does and whichever case
\* the select of schedule takes; it does not wait forever holding the
\* coordinator lock.
C18_CancelReturns ==
    \A c \in Callers :
        (cpc[c] \in {"lock", "send", "blocked"}) ~> (cpc[c] = "ret" \/ panicked)

C20_InvalidRowsIgnored ==
    \A t \in TaskIDs :
        /\ {i \in DOMAIN call[t].products : ~ValidProduct(call[t].products[i])} = {}
        /\ {i \in DOMAIN call[t].offerIDs : ~ValidOfferID(call[t].offerIDs[i])} = {}
        /\ res[t].err # "constraint"

\* the rows of a sheet that fail a check of the parsing callback and are
\* placed neither in toUpsert nor in toDelete
RejectedRows(sh) == {i \in DOMAIN sh.rows : ~RowAccepted(sh.rows[i])}

\* C21: for every task recorded as Done the recorded ignored count is the
\* number of rows of its sheet that failed validation during parsing.
C21_IgnoredIsRejected ==
    \A t \in TaskIDs :
        tasks[t].state = Done =>
            tasks[t].result.ignored = Cardinality(RejectedRows(sheet[t]))

\* C22: the terminal state recorded for a task matches the event that ended
\* it: Done exactly when the select of schedule received on the result
\* channel, the recorded result being the counters the worker sent;
\* Aborted only if the worker closed the abort channel; Canceled only if a
\* CancelTask call sent on the cancel channel; TimedOut only if the
\* context of the task was done.
C22_StateMatchesEvent ==
    \A t \in TaskIDs :
        /\ tasks[t].state \in Terminal => (tasks[t].state = Done <=> chans[t].result)
        /\ tasks[t].state = Done =>
            /\ tasks[t].result.added = res[t].inserted
            /\ tasks[t].result.updated = res[t].updated
            /\ tasks[t].result.removed = res[t].deleted
            /\ tasks[t].result.ignored =
                    sheet[t].MaxRow - 1 - (res[t].inserted + res[t].updated + res[t].deleted)
        /\ tasks[t].state = Aborted => chans[t].abort
        /\ tasks[t].state = Canceled =>
            /\ chans[t].cancel
            /\ \E c \in Callers : ctgt[c] = t /\ cpc[c] = "ret" /\ cret[c] = "nil"
        /\ tasks[t].state = TimedOut => ctxErr[t] = "deadline"
\* one task ended Done with rows removed and added, the other one ended
\* by another event
C22_Witness ==
    \E t, u \in TaskIDs :
        /\ tasks[t].state = Done /\ chans[t].result
        /\ tasks[t].result.removed > 0 /\ tasks[t].result.added > 0
        /\ tasks[u].state \in {Aborted, TimedOut}

\* no CancelTask call for task t is past its checks
NoCancelRequest(t) ==
    /\ ~chans[t].cancel
    /\ \A c \in Callers : ctgt[c] = t => cpc[c] \in {"idle", "ret"}

\* C23: when the deadline of a task has elapsed while schedule is still in
\* its select, the worker has delivered no result and no cancel was
\* requested, the state schedule records is TimedOut; the abort channel the
\* worker closes on the store's context error does not make it Aborted.
C23_DeadlineMeansTimedOut ==
    [][\A t \in TaskIDs :
        (/\ ctxErr[t] = "deadline"
         /\ spc[t] = "select"
         /\ NoCancelRequest(t))
        => tasks'[t].state \in {Processing, TimedOut}]_vars

\* C24: when a task is recorded as Canceled before the transaction of its
\* worker has passed the check of the context that precedes the commit,
\* that transaction is never committed, so the products table shows none
\* of the task's upserts and deletes.
C24_CanceledNoCommit ==
    [][\A t \in TaskIDs :
        (tasks[t].state = Canceled /\ txOutcome[t] = "late")
        => ~(/\ txOutcome'[t] = "committed"
             /\ res'[t].inserted + res'[t].updated + res'[t].deleted > 0)]_vars

\* some CancelTask call for task t has returned nil
CancelSucceeded(t) == \E c \in Callers : ctgt[c] = t /\ cpc[c] = "ret" /\ cret[c] = "nil"

\* C25: under fair scheduling a CancelTask call that returned nil is
\* followed by the task being recorded as Canceled, and the task is never
\* recorded with another terminal state; the stop channel of a task is
\* closed once, only after such a call, and it is closed when the state
\* Canceled is written.
C25_CancelSuccess ==
    /\ \A t \in TaskIDs : CancelSucceeded(t) ~> (tasks[t].state = Canceled)
    /\ [](\A t \in TaskIDs :
            /\ CancelSucceeded(t) => tasks[t].state \in {Processing, Canceled}
            /\ chans[t].stop => CancelSucceeded(t)
            /\ spc[t] = "canceled" => ~chans[t].stop
            /\ tasks[t].state = Canceled => chans[t].stop)
    /\ [][\A t \in TaskIDs : chans[t].stop => chans'[t].stop]_vars

\* C26: the entries of a task in the coordinator's two maps are removed
\* only after a terminal state of the task was written to the registry,
\* and under fair scheduling, unless the process panics, they are
\* eventually removed for every task, whatever CancelTask calls are in
\* flight.
C26_EntriesRemoved ==
    /\ [][\A t \in TaskIDs :
            ((cancelChannels[t] /\ ~cancelChannels'[t]) \/ (stopChannels[t] /\ ~stopChannels'[t]))
            => tasks[t].state \in Terminal]_vars
    /\ \A t \in TaskIDs :
            (cancelChannels[t] \/ stopChannels[t])
                ~> ((~cancelChannels[t] /\ ~stopChannels[t]) \/ panicked)

\* the storage call of the worker of task t returned an error and the
\* worker closed the abort channel
EngineFailed(t) == sheet[t].opens /\ chans[t].abort /\ ~chans[t].result

\* C29: when the storage call returns an error to the worker, the worker
\* closes the abort channel, sends no result and returns; the storage layer
\* is called at most once per task; and the task, unless it is recorded as
\* Canceled or TimedOut, is recorded as Aborted: with schedule in its
\* select the step that records Aborted is enabled.
C29_EngineErrorAborts ==
    /\ [][\A t \in TaskIDs :
            /\ (wpc[t] = "db" /\ dbpc[t] = "ret" /\ res[t].err # "nil" /\ wpc'[t] # wpc[t])
                => /\ wpc'[t] = "exit"
                   /\ chans'[t].abort /\ ~chans'[t].result
            /\ (dbpc[t] = "idle" /\ dbpc'[t] # "idle") => wpc[t] = "open"
            /\ wpc[t] \in {"db", "send", "exit"} => wpc'[t] # "open"]_vars
    /\ [](\A t \in TaskIDs :
            EngineFailed(t) =>
                /\ wpc[t] = "exit"
                /\ tasks[t].state \in {Processing, Aborted, Canceled, TimedOut}
                /\ (spc[t] = "select" /\ ~panicked) => ENABLED SelectAbort(t)
                /\ (tasks[t].state = Processing /\ ~panicked) =>
                        spc[t] \in {"select", "canceled"})
\* the storage call of a task failed while its context was live and no
\* cancel was requested, and the task is recorded as Aborted
C29_Witness ==
    \E t \in TaskIDs :
        /\ EngineFailed(t)
        /\ call[t].op # "none"
        /\ ctxErr[t] = "none"
        /\ ~chans[t].cancel
        /\ tasks[t].state = Aborted

\* the counters the worker of task t sends on the result channel
SentResult(t) ==
    Payload(res[t].inserted, res[t].updated, res[t].deleted,
            sheet[t].MaxRow - 1 - (res[t].inserted + res[t].updated + res[t].deleted))

\* C31: a task whose state is not Done has the zeroed result it was
\* created with; the result is written once, in the step that writes the
\* state Done, and it is the result the worker sent; a ReadTaskStatus that
\* returned Done returned the counters the worker sent.
C31_ResultWithDone ==
    /\ [](\A t \in TaskIDs :
            /\ tasks[t].state # Done => tasks[t].result = Payload(0, 0, 0, 0)
            /\ observed[t] = Done =>
                    returned[t] = <<"State: ", "Done", "\nStats: ">>
                                    \o dataPayload_String(SentResult(t)))
    /\ [][\A t \in TaskIDs :
            /\ tasks'[t].result # tasks[t].result =>
                    /\ tasks[t].state = Processing
                    /\ tasks'[t].state = Done
            /\ (tasks[t].state # Done /\ tasks'[t].state = Done) =>
                    tasks'[t].result = SentResult(t)]_vars
\* a reader was first given Processing and then the counters of the Done
\* task, the ones the worker sent, an updated row among them
C31_Witness ==
    \E t \in TaskIDs :
        /\ observed[t] = Done
        /\ tasks[t].result = SentResult(t)
        /\ tasks[t].result.updated > 0
        /\ returned[t][7] = tasks[t].result.updated

\* C32: for every task recorded as Done, whatever its sheet (a sheet
\* without rows and a sheet with only a header row included), the recorded
\* added, updated, removed and ignored counters are not negative.
C32_CountersNonNegative ==
    \A t \in TaskIDs :
        tasks[t].state = Done =>
            /\ tasks[t].result.added >= 0
            /\ tasks[t].result.updated >= 0
            /\ tasks[t].result.removed >= 0
            /\ tasks[t].result.ignored >= 0

\* the step of task t's schedule goroutine that writes the state of the
\* task: one of the three updateTaskState calls after the select, the
\* write of state and result in the result case, or the updateTaskState
\* call that follows that write
StateWrite(t) ==
    \/ spc[t] = "select" /\ spc'[t] = "cleanup"
    \/ spc[t] = "canceled" /\ spc'[t] = "cleanup"
    \/ spc[t] = "done" /\ spc'[t] = "done_again"
    \/ spc[t] = "done_again" /\ spc'[t] = "cleanup"

\* C33: after NewTask the state of a task changes only in a step of the
\* task's own schedule goroutine, and that goroutine writes the state of
\* its task at most once: when it writes, the task is still Processing.
C33_SingleStateWrite ==
    [][\A t \in TaskIDs :
        /\ (tasks[t].state # NoTask /\ tasks'[t].state # tasks[t].state) => StateWrite(t)
        /\ StateWrite(t) => tasks[t].state = Processing]_vars

\* C34: tasks complete independently: a step of a CancelTask call for one
\* task leaves the registry entry of every other task as it is, and under
\* fair scheduling a task no CancelTask call ever targets reaches a
\* terminal state, unless the process panics, whatever calls target the
\* other task and whatever that task's worker does.
C34_TasksIndependent ==
    /\ [][\A c \in Callers, b \in TaskIDs :
            (cpc'[c] # cpc[c] /\ ctgt'[c] # b) => tasks'[b] = tasks[b]]_vars
    /\ \A b \in TaskIDs :
            [](\A c \in Callers : ctgt[c] # b)
                => ((tasks[b].state = Processing) ~> (tasks[b].state \in Terminal \/ panicked))

\* C36: whenever a CancelTask call, having read its task as Processing,
\* holds the coordinator lock and sends, the coordinator map has a cancel
\* channel registered for the task and that channel is open: the lookup
\* never yields a missing (nil) channel.
C36_CancelChannelRegistered ==
    \A c \in Callers :
        cpc[c] \in {"send", "blocked"} =>
            /\ cpc[c] # "blocked"
            /\ cancelChannels[ctgt[c]]
            /\ ~chans[ctgt[c]].cancel

\* the products table after the batch of call c was applied to tbl
BatchApplied(tbl, c) ==
    LET merged == MergedView(tbl, c.products)
        rows == IF Len(c.offerIDs) # 0
                THEN DeleteRows(merged, c.merchantID, c.offerIDs) ELSE {}
    IN  [k \in Keys |-> IF k \in rows THEN Absent ELSE merged[k]]

\* C37: a task is recorded as Done only if the storage call picked for its
\* batch returned without error after the commit of its outermost
\* transaction, or if no storage call was needed; the effects of the batch
\* are then in the products table: while no other task has committed, the
\* table is the initial one with the batch applied.
C37_DoneMeansCommitted ==
    \A t \in TaskIDs :
        (chans[t].result \/ tasks[t].state = Done) =>
            /\ res[t].err = "nil"
            /\ IF call[t].op = "none"
               THEN txOutcome[t] = "none"
               ELSE txOutcome[t] = "committed"
            /\ (\A u \in TaskIDs \ {t} : txOutcome[u] # "committed")
                    => table = BatchApplied(FixtureTable, call[t])
\* a task whose batch is one Delete is Done and the row is gone
C37_Witness ==
    \E t \in TaskIDs :
        /\ tasks[t].state = Done
        /\ call[t].op = "Delete"
        /\ txOutcome[t] = "committed"
        /\ tasks[t].result.removed = 1
        /\ table # FixtureTable
        /\ table = BatchApplied(FixtureTable, call[t])

\* the rows of a sheet that are accepted and available, and those that are
\* accepted and not available
UpsertRows(sh) == {i \in DOMAIN sh.rows : RowAccepted(sh.rows[i]) /\ Available(sh.rows[i])}
DeleteRowsOf(sh) == {i \in DOMAIN sh.rows : RowAccepted(sh.rows[i]) /\ ~Available(sh.rows[i])}

\* C38: the worker picks the storage call by the shape of its batch:
\* UpsertAndDelete when toUpsert and toDelete are both non-empty, Upsert
\* when only toUpsert is, Delete when only toDelete is, no call when both
\* are empty; so Delete, stand-alone or nested, never runs with an empty
\* key list, and its value-list builder never indexes past the end.
C38_CallByBatchShape ==
    \A t \in TaskIDs :
        /\ (wpc[t] \in {"db", "send", "exit"} /\ sheet[t].opens) =>
            /\ call[t].op =
                (IF UpsertRows(sheet[t]) # {} /\ DeleteRowsOf(sheet[t]) # {} THEN "UpsertAndDelete"
                 ELSE IF UpsertRows(sheet[t]) # {} THEN "Upsert"
                 ELSE IF DeleteRowsOf(sheet[t]) # {} THEN "Delete"
                 ELSE "none")
            /\ Len(call[t].products) = Cardinality(UpsertRows(sheet[t]))
            /\ Len(call[t].offerIDs) = Cardinality(DeleteRowsOf(sheet[t]))
        /\ dbpc[t] \in {"d_stage", "d_stmt", "d_ctx", "d_commit"} => Len(call[t].offerIDs) # 0
        /\ dbpc[t] \in {"u_stage", "u_merge", "u_ctx", "u_commit"} => Len(call[t].products) # 0
\* one worker stands at the DELETE of a one-key list while the worker of a
\* sheet without accepted rows has returned without a storage call
C38_Witness ==
    \E t, u \in TaskIDs :
        /\ call[t].op = "Delete" /\ dbpc[t] = "d_stmt" /\ Len(call[t].offerIDs) = 1
        /\ sheet[u].opens /\ wpc[u] \in {"send", "exit"} /\ call[u].op = "none"

\* C39: isAnyNonDefault returns true only if merchantID, offerID and
\* nameQuery all equal their defaults: a List call for which it returned
\* true, and which therefore ran its query, had no filter supplied.
C39_IsAnyNonDefault ==
    (listing.pc # "idle" /\ isAnyNonDefault(listing.parameters))
        => /\ listing.pc # "panic"
           /\ listing.parameters.merchantID = defaultMerchantID
           /\ listing.parameters.offerID = defaultOfferID
           /\ listing.parameters.nameQuery = defaultNameQuery

====
